---------------------------- MODULE Spec2Model ----------------------------
(***************************************************************************)
(* A model of gitAuto (src/app.py): the interactive menu loop, the five    *)
(* repository actions it dispatches to, the credential store and the       *)
(* command runner.                                                         *)
(*                                                                         *)
(* Text is modelled as sequences of one-character strings, so that the     *)
(* validation, strip(), lower(), split() and replace() calls are computed  *)
(* on characters as the code computes them.                                *)
(*                                                                         *)
(* A Python function is modelled by an operator that maps the world at     *)
(* call time to the SET of results the call can have, one per outcome of   *)
(* the external calls made on the way (HTTP responses, subprocess exit     *)
(* codes, typed lines, file errors).  A result carries the world after     *)
(* the call, how control left the function (ctl: "ok" for a return,        *)
(* "exit" for exit(), otherwise the class of the exception that            *)
(* propagates) and, where the function returns one, the value (ret).       *)
(***************************************************************************)
EXTENDS Integers, Sequences, FiniteSets, TLC

\* ------------------------------------------------------------------ bounds

\* Longest line of freely chosen characters typed as a repository name;
\* NameLines also holds each such line followed by MaxNameLen - 1 letters.
MaxPrefix == 2

\* ------------------------------------------------------- program constants

\* len(repo_name) > 100
MaxNameLen == 100

HTTP_OK == 200
HTTP_CREATED == 201
HTTP_NO_CONTENT == 204

\* ---------------------------------------------------------------- strings

LowerLetters ==
    <<"a","b","c","d","e","f","g","h","i","j","k","l","m",
      "n","o","p","q","r","s","t","u","v","w","x","y","z">>

UpperLetters ==
    <<"A","B","C","D","E","F","G","H","I","J","K","L","M",
      "N","O","P","Q","R","S","T","U","V","W","X","Y","Z">>

Digits == {"0","1","2","3","4","5","6","7","8","9"}

Range(s) == { s[i] : i \in DOMAIN s }

\* str.strip() with no argument strips whitespace
Whitespace == {" ", "\t", "\n", "\r"}

LowerChar(c) ==
    IF \E i \in DOMAIN UpperLetters : UpperLetters[i] = c
      THEN LowerLetters[CHOOSE i \in DOMAIN UpperLetters : UpperLetters[i] = c]
      ELSE c

\* str.lower()
Lower(s) == [i \in DOMAIN s |-> LowerChar(s[i])]

RECURSIVE LStrip(_)
LStrip(s) ==
    IF s # <<>> /\ Head(s) \in Whitespace THEN LStrip(Tail(s)) ELSE s

RECURSIVE RStrip(_)
RStrip(s) ==
    IF s # <<>> /\ s[Len(s)] \in Whitespace
      THEN RStrip(SubSeq(s, 1, Len(s) - 1))
      ELSE s

\* str.strip()
Strip(s) == RStrip(LStrip(s))

\* str.startswith(p)
StartsWith(s, p) == Len(s) >= Len(p) /\ SubSeq(s, 1, Len(p)) = p

\* c in s, for a one-character c
Contains(s, c) == c \in Range(s)

\* s.split(sep)[-1]: what follows the last separator, all of s without one
RECURSIVE LastSegment(_, _)
LastSegment(s, sep) ==
    IF ~Contains(s, sep) THEN s
    ELSE LastSegment(Tail(s), sep)

\* s.replace(old, ""): every non-overlapping occurrence, left to right
RECURSIVE RemoveAll(_, _)
RemoveAll(s, old) ==
    IF Len(s) < Len(old) THEN s
    ELSE IF StartsWith(s, old) THEN RemoveAll(SubSeq(s, Len(old) + 1, Len(s)), old)
    ELSE <<Head(s)>> \o RemoveAll(Tail(s), old)

DotGit == <<".", "g", "i", "t">>
Yes == <<"y", "e", "s">>

\* The character class [a-zA-Z0-9_.-]
NameChars == Range(LowerLetters) \cup Range(UpperLetters) \cup Digits \cup {"_", ".", "-"}

\* re.match(r'^[a-zA-Z0-9_.-]+$', s): one or more characters of the class up
\* to the end of the string, where $ also matches just before a final newline
ReMatchName(s) ==
    \/ s # <<>> /\ Range(s) \subseteq NameChars
    \/ /\ Len(s) >= 2
       /\ s[Len(s)] = "\n"
       /\ Range(SubSeq(s, 1, Len(s) - 1)) \subseteq NameChars


\* ------------------------------------------------------------ typed lines

RECURSIVE SeqsUpTo(_, _)
SeqsUpTo(S, n) ==
    IF n = 0 THEN {<<>>}
    ELSE LET shorter == SeqsUpTo(S, n - 1)
         IN  shorter \cup { Append(s, c) : s \in shorter, c \in S }

Pad(n) == [i \in 1..n |-> "a"]

\* Characters a repository name is typed from: a letter, the hyphen, the
\* dot, and the two path separators (neither is in the character class).
PrefixChars == {"a", "-", ".", "/", "\\"}

\* input() returns the typed line without its line end: no line holds "\n".
\* Lines for the repository name prompts: every line of up to MaxPrefix
\* characters, each also followed by MaxNameLen - 1 letters (lengths around
\* the limit of 100), and the name of the version-control marker directory.
NameLines ==
    { p \o Pad(n) : p \in SeqsUpTo(PrefixChars, MaxPrefix), n \in {0, MaxNameLen - 1} }
      \cup {DotGit}

\* Lines for the yes/no prompts
AnswerLines == { Yes, <<" ", "Y", "E", "S", " ">>, <<"n", "o">>, <<>> }

\* Lines for the menu prompt
ChoiceLines ==
    { <<"1">>, <<"2">>, <<"3">>, <<"4">>, <<"5">>, <<"6">>, <<"7">>, <<>>, <<"1", " ">> }

\* Lines for the login prompts
UserLines == { <<>>, <<"u">> }
TokenLines == { <<>>, <<"t">> }

\* Lines for the URL prompt of the public clone
UrlLines ==
    { <<>>, <<" ">>,
      <<"h", "/", "a">>,
      <<" ", "h", "/", "a", ".", "g", "i", "t">>,
      <<"h", "/", "b", ".", "g", "i", "t">>,
      <<"h", "/", "a", "/">> }

\* ------------------------------------------------------------ the world

\* The filesystem as seen from the working directory at startup: a set of
\* <<name, kind>> entries, kind "dir" or "file".  "." and ".." always exist.
Exists(fs, p) == p \in {<<".">>, <<".", ".">>} \/ \E e \in fs : e[1] = p
IsDir(fs, p) == p \in {<<".">>, <<".", ".">>} \/ <<p, "dir">> \in fs

\* The credential file: absent, not parseable as JSON, or a JSON object
NoFile == [kind |-> "absent", username |-> <<>>, token |-> <<>>]
Corrupt == [kind |-> "corrupt", username |-> <<>>, token |-> <<>>]
Dict(u, t) == [kind |-> "dict", username |-> u, token |-> t]
\* the Python value {}
EmptyDict == [kind |-> "empty", username |-> <<>>, token |-> <<>>]

\* What an action did: one event per prompt, message and external call.
\* k: kind, a: which, d: data sent, r: result (an HTTP status, an exit code,
\* Failed when the call raised instead of returning).
Failed == 0 - 1
Event(k, a, d, r) == [k |-> k, a |-> a, d |-> d, r |-> r]
Emit(w, k, a, d, r) == [w EXCEPT !.log = Append(@, Event(k, a, d, r))]
Printed(w, msg) == Emit(w, "print", msg, "", 0)
Asked(w, prompt) == Emit(w, "input", prompt, "", 0)

Has(log, k, a) == \E i \in DOMAIN log : log[i].k = k /\ log[i].a = a
HasResult(log, k, a, r) ==
    \E i \in DOMAIN log : log[i].k = k /\ log[i].a = a /\ log[i].r = r
HasKind(log, k) == \E i \in DOMAIN log : log[i].k = k

\* Outcomes of the external calls
HttpStatuses == {HTTP_OK, HTTP_CREATED, HTTP_NO_CONTENT, 404}
\* a response, or requests raising (no connection)
HttpOutcomes == HttpStatuses \cup {Failed}
\* exit code 0, a non-zero exit code, or the executable could not be started
RunOutcomes == {0, 1, Failed}
\* a file operation succeeds or raises OSError
FileOutcomes == {0, Failed}

\* ----------------------------------------------------- credential store

load_credentials(w) ==
    IF w.cred.kind = "absent" THEN [w |-> w, ctl |-> "ok", ret |-> EmptyDict]
    ELSE IF w.cred.kind = "corrupt"
      THEN [w |-> w, ctl |-> "JSONDecodeError", ret |-> EmptyDict]
    ELSE [w |-> w, ctl |-> "ok", ret |-> w.cred]

save_credentials(w, username, token) ==
    { IF o = Failed
        THEN [w |-> Emit(w, "file", "save_credentials", "", Failed), ctl |-> "OSError"]
        ELSE [w |-> Printed([Emit(w, "file", "save_credentials", "", 0)
                               EXCEPT !.cred = Dict(username, token)],
                            "credentials_saved"),
              ctl |-> "ok"]
      : o \in FileOutcomes }

git_login(w) ==
    LET l == load_credentials(w) IN
    IF l.ctl # "ok" THEN { l }
    ELSE IF l.ret.kind = "dict"
      THEN { [w |-> Printed(l.w, "already_logged_in"), ctl |-> "ok", ret |-> l.ret] }
    ELSE UNION {
           { [w |-> s.w, ctl |-> s.ctl,
              ret |-> IF s.ctl = "ok" THEN Dict(username, token) ELSE EmptyDict]
             : s \in save_credentials(Asked(Asked(l.w, "username"), "token"),
                                      username, token) }
           : username \in UserLines, token \in TokenLines }

\* ------------------------------------------------------- command runner

EndsWith(s, p) == Len(s) >= Len(p) /\ SubSeq(s, Len(s) - Len(p) + 1, Len(s)) = p
DropLast(s, n) == SubSeq(s, 1, Len(s) - n)

RECURSIVE DropTrailing(_, _)
DropTrailing(s, c) ==
    IF s # <<>> /\ s[Len(s)] = c THEN DropTrailing(DropLast(s, 1), c) ELSE s

\* The directory "git clone <url>" clones into: the last path component of
\* the URL, trailing slashes and one ".git" suffix dropped.
GitCloneDir(url) ==
    LET trimmed == DropTrailing(url, "/")
        bare == IF EndsWith(trimmed, <<"/">> \o DotGit) THEN DropLast(trimmed, 5) ELSE trimmed
        last == LastSegment(bare, "/")
    IN  IF EndsWith(last, DotGit) THEN DropLast(last, 4) ELSE last

\* What the subprocess leaves behind: a clone that exits with 0 has created
\* its directory; every other command, and a failed one, leaves the tracked
\* entries as they were.
GitEffect(fs, command, arg, o) ==
    IF command = "clone" /\ o = 0 /\ ~Exists(fs, GitCloneDir(arg))
      THEN fs \cup {<<GitCloneDir(arg), "dir">>}
      ELSE fs

\* A clone cannot exit with 0 onto a path that is a file, or without a name
GitCanExit(fs, command, arg, o) ==
    command = "clone" /\ o = 0 =>
        /\ GitCloneDir(arg) # <<>>
        /\ Exists(fs, GitCloneDir(arg)) => IsDir(fs, GitCloneDir(arg))

\* subprocess.run(command, check=True): CalledProcessError on a non-zero
\* exit code, OSError when the executable cannot be started
subprocess_run(w, command, arg) ==
    { [w |-> Emit([w EXCEPT !.fs = GitEffect(@, command, arg, o)], "run", command, "", o),
       ctl |-> IF o = 0 THEN "ok" ELSE IF o = Failed THEN "OSError" ELSE "CalledProcessError"]
      : o \in { x \in RunOutcomes : GitCanExit(w.fs, command, arg, x) } }

execute_command(w, command, arg) ==
    { IF s.ctl = "CalledProcessError"
        THEN [w |-> Printed(s.w, "error_executing_command"), ctl |-> "ok"]
        ELSE s
      : s \in subprocess_run(w, command, arg) }

\* ------------------------------------------------------- hosting requests

\* requests.get / post / delete / patch: a response with a status code, or
\* an exception when no response arrives
http_request(w, method, data) ==
    { [w |-> Emit(w, "http", method, data, o),
       ctl |-> IF o = Failed THEN "RequestException" ELSE "ok",
       ret |-> o]
      : o \in HttpOutcomes }

NoAnswer == [remote_exists |-> FALSE, folder_exists |-> FALSE]

Mutant_RemoteExists(status) == status = HTTP_CREATED

\* remote_exists = response.status_code == 200
RemoteExists(status) == status = HTTP_OK

repo_exists(w, repo_name) ==
    UNION {
      IF g.ctl # "ok" THEN { [w |-> g.w, ctl |-> g.ctl, ret |-> NoAnswer] }
      ELSE LET folder_exists == Exists(g.w.fs, repo_name) IN
           { IF h.ctl # "ok" THEN [w |-> h.w, ctl |-> h.ctl, ret |-> NoAnswer]
             ELSE [w |-> h.w, ctl |-> "ok",
                   ret |-> [remote_exists |-> RemoteExists(h.ret),
                            folder_exists |-> folder_exists]]
             : h \in http_request(g.w, "GET", "") }
      : g \in git_login(w) }

\* ------------------------------------------------------------- the actions

Return(w) == [w |-> w, ctl |-> "ok"]
Raise(r) == [w |-> r.w, ctl |-> r.ctl]

GithubUrl == <<"h", "t", "t", "p", "s", ":", "/", "/",
               "g", "i", "t", "h", "u", "b", ".", "c", "o", "m", "/">>

\* os.chdir(p)
Chdir(cwd, p) == IF p = <<".">> THEN cwd ELSE Append(cwd, p)

\* The common tail of auto_clone and clone_public_repo: enter the folder and
\* exit the process if the folder exists, report a failed clone otherwise
EnterOrFail(w, repo_name) ==
    IF Exists(w.fs, repo_name)
      THEN [w |-> Printed(Printed(Emit([w EXCEPT !.cwd = Chdir(@, repo_name)],
                                       "file", "chdir", "", 0),
                                  "entered"), "exiting_script"),
            ctl |-> "exit"]
      ELSE Return(Printed(w, "clone_failed"))

auto_clone(w, repo_name) ==
    UNION {
      IF g.ctl # "ok" THEN { Raise(g) }
      ELSE LET repo_url == GithubUrl \o g.ret.username \o <<"/">> \o repo_name \o DotGit IN
           { IF c.ctl # "ok" THEN c ELSE EnterOrFail(c.w, repo_name)
             : c \in execute_command(Printed(g.w, "cloning"), "clone", repo_url) }
      : g \in git_login(w) }

PrivateData(private) == IF private THEN "private" ELSE "public"

\* create_repo from the POST on (lines 85-102)
CreateRemote(w, repo_name, private) ==
    UNION {
      IF g.ctl # "ok" THEN { Raise(g) }
      ELSE UNION {
        IF h.ctl # "ok" THEN { Raise(h) }
        ELSE IF h.ret = HTTP_CREATED
          THEN IF ~Exists(h.w.fs, repo_name)
                 THEN auto_clone(Printed(h.w, "created"), repo_name)
                 ELSE { Return(Printed(Printed(h.w, "created"), "link_instructions")) }
        ELSE { Return(Printed(h.w, "error_creating")) }
        : h \in http_request(g.w, "POST", PrivateData(private)) }
      : g \in git_login(w) }

Mutant_CreateNameError(repo_name) ==
    IF ~ReMatchName(repo_name) THEN "invalid_characters"
    ELSE IF StartsWith(repo_name, <<"-">>) THEN "leading_hyphen"
    ELSE IF Len(repo_name) >= MaxNameLen THEN "too_long"
    ELSE ""

\* The three checks at the head of create_repo: "" when the name passes,
\* the message of the first check that fails otherwise
CreateNameError(repo_name) ==
    IF ~ReMatchName(repo_name) THEN "invalid_characters"
    ELSE IF StartsWith(repo_name, <<"-">>) THEN "leading_hyphen"
    ELSE IF Len(repo_name) > MaxNameLen THEN "too_long"
    ELSE ""

create_repo(w, repo_name, private) ==
    IF CreateNameError(repo_name) # "" THEN { Return(Printed(w, CreateNameError(repo_name))) }
    ELSE UNION {
      IF e.ctl # "ok" THEN { Raise(e) }
      ELSE IF e.ret.remote_exists THEN { Return(Printed(e.w, "already_exists")) }
      ELSE IF e.ret.folder_exists
        THEN UNION {
               IF Lower(proceed) # Yes
                 THEN { Return(Printed(Asked(Printed(e.w, "folder_exists"), "proceed"),
                                       "creation_aborted")) }
                 ELSE CreateRemote(Asked(Printed(e.w, "folder_exists"), "proceed"),
                                   repo_name, private)
               : proceed \in AnswerLines }
      ELSE CreateRemote(e.w, repo_name, private)
      : e \in repo_exists(w, repo_name) }


\* shutil.rmtree(p): the folder is gone, or an error is raised and it stays
rmtree(w, p) ==
    { [w |-> Emit([w EXCEPT !.fs = IF o = 0 THEN @ \ {<<p, "dir">>} ELSE @],
                  "file", "rmtree", "", o),
       ctl |-> IF o = 0 THEN "ok" ELSE "OSError"]
      : o \in FileOutcomes }

Mutant_DeleteNameError(repo_name) ==
    IF repo_name = <<>> THEN "name_empty"
    ELSE IF Contains(repo_name, "/") \/ Contains(repo_name, "\\")
      THEN "invalid_name"
    ELSE ""

\* The two checks at the head of delete_repo: "" when the name passes
DeleteNameError(repo_name) ==
    IF repo_name = <<>> THEN "name_empty"
    ELSE IF \/ Contains(repo_name, "/")
            \/ Contains(repo_name, "\\")
            \/ repo_name \in {<<".">>, <<".", ".">>}
      THEN "invalid_name"
    ELSE ""

Mutant_DeleteSucceeded(status) == status \in {HTTP_OK, HTTP_NO_CONTENT}

\* response.status_code == 204
DeleteSucceeded(status) == status = HTTP_NO_CONTENT

\* delete_repo after a 204 (lines 136-145)
DeleteLocal(w, repo_name) ==
    IF ~Exists(w.fs, repo_name) THEN { Return(w) }
    ELSE IF IsDir(w.fs, repo_name)
      THEN { IF t.ctl = "ok" THEN Return(Printed(t.w, "local_folder_deleted"))
             ELSE Return(Printed(t.w, "error_deleting_local_folder"))
             : t \in rmtree(w, repo_name) }
    ELSE { Return(Printed(w, "not_a_directory")) }

delete_repo(w, repo_name) ==
    IF DeleteNameError(repo_name) # "" THEN { Return(Printed(w, DeleteNameError(repo_name))) }
    ELSE UNION {
      IF g.ctl # "ok" THEN { Raise(g) }
      ELSE UNION {
        IF h.ctl # "ok" THEN { Raise(h) }
        ELSE IF DeleteSucceeded(h.ret)
          THEN DeleteLocal(Printed(h.w, "deleted"), repo_name)
        ELSE { Return(Printed(h.w, "error_deleting")) }
        : h \in http_request(g.w, "DELETE", "") }
      : g \in git_login(w) }

set_repo_visibility(w, repo_name, private) ==
    UNION {
      IF g.ctl # "ok" THEN { Raise(g) }
      ELSE { IF h.ctl # "ok" THEN Raise(h)
             ELSE IF h.ret = HTTP_OK
               THEN Return(Printed(h.w, IF private THEN "now_private" ELSE "now_public"))
             ELSE Return(Printed(h.w, "error_visibility"))
             : h \in http_request(g.w, "PATCH", PrivateData(private)) }
      : g \in git_login(w) }

\* push_repo's commit step (lines 180-184): the except clause takes what
\* execute_command lets through as CalledProcessError
Commit(w) ==
    { IF c.ctl = "CalledProcessError"
        THEN [w |-> Printed(c.w, "commit_failed"), ctl |-> "return"]
        ELSE c
      : c \in execute_command(w, "commit", <<>>) }

\* push_repo once changes exist (lines 179-185)
StageCommitPush(w) ==
    UNION {
      IF a.ctl # "ok" THEN { a }
      ELSE UNION {
        IF c.ctl = "return" THEN { Return(c.w) }
        ELSE IF c.ctl # "ok" THEN { c }
        ELSE execute_command(c.w, "push", <<>>)
        : c \in Commit(a.w) }
      : a \in execute_command(w, "add", <<>>) }

Mutant_NoChanges(w) == StageCommitPush(Printed(w, "no_changes"))

\* Both diff checks exited with 0: report and return (lines 174-175)
NoChanges(w) == { Return(Printed(w, "no_changes")) }

push_repo(w) ==
    IF ~Exists(w.fs, DotGit) THEN { Return(Printed(w, "not_a_git_repository")) }
    ELSE UNION {
      IF d.ctl = "CalledProcessError" THEN StageCommitPush(d.w)
      ELSE IF d.ctl # "ok" THEN { d }
      ELSE UNION {
        IF q.ctl = "CalledProcessError" THEN StageCommitPush(q.w)
        ELSE IF q.ctl # "ok" THEN { q }
        ELSE NoChanges(q.w)
        : q \in subprocess_run(d.w, "diff_cached", <<>>) }
      : d \in subprocess_run(w, "diff", <<>>) }

\* repo_url.split("/")[-1].replace(".git", "")
UrlRepoName(repo_url) == RemoveAll(LastSegment(repo_url, "/"), DotGit)

\* clone_public_repo, given the line typed at its prompt
clone_public_repo(w, line) ==
    LET repo_url == Strip(line) IN
    IF repo_url = <<>> THEN { Return(Printed(Asked(w, "url"), "invalid_url")) }
    ELSE { IF c.ctl # "ok" THEN c ELSE EnterOrFail(c.w, UrlRepoName(repo_url))
           : c \in execute_command(Printed(Asked(w, "url"), "cloning"), "clone", repo_url) }

\* ------------------------------------------------------------------ state

VARIABLES
    fs,               \* the entries of the startup directory
    cwd,              \* the folders entered since startup
    cred,             \* the credential file
    inside_git_repo,  \* main's flag, set once at startup
    pc,               \* "prompt": at the menu prompt; "returned": an action has
                      \* returned to the loop; "break": the loop was left by the
                      \* exit choice; "exit": exit() was called; "crash": an
                      \* exception reached the top of the program
    choice,           \* the line read at the menu prompt in this iteration
    repo_name,        \* the repository name read in this iteration
    repo_url,         \* the line read at the URL prompt in this iteration
    log               \* what this iteration did

vars == <<fs, cwd, cred, inside_git_repo, pc, choice, repo_name, repo_url, log>>

InitEntries ==
    { d \cup a : d \in {{}, {<<DotGit, "dir">>}, {<<DotGit, "file">>}},
                 a \in {{}, {<<(<<"a">>), "dir">>}, {<<(<<"a">>), "file">>}} }

Init ==
    /\ fs \in InitEntries
    /\ cwd = <<>>
    /\ cred \in {NoFile, Corrupt, Dict(<<"u">>, <<"t">>)}
    /\ inside_git_repo = Exists(fs, DotGit)
    /\ pc = "prompt"
    /\ choice = <<>>
    /\ repo_name = <<>>
    /\ repo_url = <<>>
    /\ log = <<>>

\* The world an action starts in, the menu choice read
World == [fs |-> fs, cwd |-> cwd, cred |-> cred, log |-> <<Event("input", "choice", "", 0)>>]

\* The state an action's result r leaves
Finish(c, n, u, r) ==
    /\ fs' = r.w.fs
    /\ cwd' = r.w.cwd
    /\ cred' = r.w.cred
    /\ log' = IF r.ctl \in {"ok", "exit"} THEN r.w.log
              ELSE Append(r.w.log, Event("raise", r.ctl, "", 0))
    /\ pc' = IF r.ctl = "ok" THEN "returned"
             ELSE IF r.ctl = "exit" THEN "exit"
             ELSE "crash"
    /\ choice' = c
    /\ repo_name' = n
    /\ repo_url' = u
    /\ UNCHANGED inside_git_repo

IsPrivate(line) == Lower(Strip(line)) = Yes

Create ==
    /\ pc = "prompt"
    /\ \E c \in ChoiceLines :
         /\ c = <<"1">> /\ ~inside_git_repo
         /\ \E n \in NameLines, p \in AnswerLines :
              \E r \in create_repo(Asked(Asked(World, "repo_name"), "private"), n, IsPrivate(p)) :
                Finish(c, n, <<>>, r)

Delete ==
    /\ pc = "prompt"
    /\ \E c \in ChoiceLines :
         /\ ~(c = <<"1">> /\ ~inside_git_repo)
         /\ c = <<"2">>
         /\ \E n \in NameLines :
              \E r \in delete_repo(Asked(World, "repo_name"), n) :
                Finish(c, n, <<>>, r)

SetVisibility ==
    /\ pc = "prompt"
    /\ \E c \in ChoiceLines :
         /\ ~(c = <<"1">> /\ ~inside_git_repo)
         /\ c = <<"3">>
         /\ \E n \in NameLines, p \in AnswerLines :
              \E r \in set_repo_visibility(Asked(Asked(World, "repo_name"), "private"),
                                           n, IsPrivate(p)) :
                Finish(c, n, <<>>, r)

Push ==
    /\ pc = "prompt"
    /\ \E c \in ChoiceLines :
         /\ ~(c = <<"1">> /\ ~inside_git_repo)
         /\ c = <<"4">>
         /\ \E r \in push_repo(World) : Finish(c, <<>>, <<>>, r)

ClonePublic ==
    /\ pc = "prompt"
    /\ \E c \in ChoiceLines :
         /\ c \notin {<<"1">>, <<"2">>, <<"3">>, <<"4">>}
         /\ c = <<"5">> /\ ~inside_git_repo
         /\ \E u \in UrlLines :
              \E r \in clone_public_repo(World, u) : Finish(c, <<>>, u, r)

Exit ==
    /\ pc = "prompt"
    /\ \E c \in ChoiceLines :
         /\ c \notin {<<"1">>, <<"2">>, <<"3">>, <<"4">>, <<"5">>}
         /\ c = <<"6">>
         /\ pc' = "break"
         /\ choice' = c
         /\ log' = World.log \o <<Event("print", "exiting", "", 0)>>
         /\ UNCHANGED <<fs, cwd, cred, inside_git_repo, repo_name, repo_url>>

InvalidOption ==
    /\ pc = "prompt"
    /\ \E c \in ChoiceLines :
         /\ ~(c = <<"1">> /\ ~inside_git_repo)
         /\ c \notin {<<"2">>, <<"3">>, <<"4">>}
         /\ ~(c = <<"5">> /\ ~inside_git_repo)
         /\ c # <<"6">>
         /\ Finish(c, <<>>, <<>>, Return(Printed(World, "invalid_or_hidden_option")))

\* The end of the loop body: back to the head of "while True", the menu is
\* printed and the next choice awaited
Loop ==
    /\ pc = "returned"
    /\ pc' = "prompt"
    /\ choice' = <<>>
    /\ repo_name' = <<>>
    /\ repo_url' = <<>>
    /\ log' = <<>>
    /\ UNCHANGED <<fs, cwd, cred, inside_git_repo>>

Next ==
    \/ Create
    \/ Delete
    \/ SetVisibility
    \/ Push
    \/ ClonePublic
    \/ Exit
    \/ InvalidOption
    \/ Loop

Spec == Init /\ [][Next]_vars


\* ------------------------------------------------------------------ claims

\* The action the iteration dispatched to (main, lines 227-252)
ChoseCreate == pc # "prompt" /\ choice = <<"1">> /\ ~inside_git_repo
ChoseDelete == pc # "prompt" /\ choice = <<"2">>
ChosePush == pc # "prompt" /\ choice = <<"4">>
ChoseClonePublic == pc # "prompt" /\ choice = <<"5">> /\ ~inside_git_repo

\* The action got as far as its first git_login call: the stored credential
\* was reported, the login prompt shown, or the credential file failed to load
ReachedLogin(l) ==
    \/ Has(l, "print", "already_logged_in")
    \/ Has(l, "input", "username")
    \/ Has(l, "raise", "JSONDecodeError")

\* C1: in the create action, once the existence lookup (GET) has returned
\* 200 the action reports that the repository exists and returns: no POST
\* is issued, nothing is cloned and no confirmation is asked for, whether or
\* not a local folder of that name exists.
C1_NoPostWhenRemoteExists ==
    (ChoseCreate /\ HasResult(log, "http", "GET", 200)) =>
        /\ ~Has(log, "http", "POST")
        /\ ~HasKind(log, "run")
        /\ ~Has(log, "input", "proceed")
        /\ Has(log, "print", "already_exists")
        /\ pc = "returned"

C1_Witness ==
    /\ ChoseCreate
    /\ HasResult(log, "http", "GET", 200)
    /\ Exists(fs, repo_name)
    /\ repo_name \notin {<<".">>, <<".", ".">>}
    /\ pc = "returned"

\* C2: an entry leaves the filesystem only in a delete action whose DELETE
\* request returned 204, and only if it is the directory named by the
\* repository; a delete action whose request returned anything else removes
\* nothing, and a path that is not a directory is left in place.
C2_LocalRemovalOnlyAfter204 ==
    [][ /\ \A e \in fs \ fs' :
             /\ choice' = <<"2">>
             /\ e = <<repo_name', "dir">>
             /\ HasResult(log', "http", "DELETE", 204)
        /\ (choice' = <<"2">> /\ ~HasResult(log', "http", "DELETE", 204)) =>
             (fs' = fs /\ ~Has(log', "file", "rmtree"))
        /\ (choice' = <<"2">> /\ <<repo_name', "file">> \in fs) =>
             (fs' = fs /\ ~Has(log', "file", "rmtree"))
      ]_vars

C2_Witness ==
    /\ ChoseDelete
    /\ HasResult(log, "http", "DELETE", 204)
    /\ HasResult(log, "file", "rmtree", 0)
    /\ ~Exists(fs, repo_name)

RejectedByDelete(n) ==
    \/ n = <<>>
    \/ n = <<".">>
    \/ n = <<".", ".">>
    \/ \E i \in DOMAIN n : n[i] = "/" \/ n[i] = "\\"

\* C3: the delete action rejects a name that is empty, "." or "..", or holds
\* "/" or "\": it then issues no request, shows no login prompt and leaves
\* the filesystem, the working directory and the credential file as they
\* were; every other name passes the validation and reaches the login step.
C3_DeleteValidation ==
    [][ choice' = <<"2">> =>
          IF RejectedByDelete(repo_name')
            THEN /\ Has(log', "print", "name_empty") \/ Has(log', "print", "invalid_name")
                 /\ ~HasKind(log', "http")
                 /\ ~Has(log', "input", "username")
                 /\ ~Has(log', "input", "token")
                 /\ ~HasKind(log', "file")
                 /\ ~ReachedLogin(log')
                 /\ fs' = fs /\ cwd' = cwd /\ cred' = cred
                 /\ pc' = "returned"
            ELSE /\ ~Has(log', "print", "name_empty")
                 /\ ~Has(log', "print", "invalid_name")
                 /\ ReachedLogin(log')
      ]_vars

C3_Witness ==
    /\ ChoseDelete
    /\ repo_name = <<".", ".">>
    /\ Has(log, "print", "invalid_name")
    /\ pc = "returned"

\* C4: in the push action, after the commit subprocess has exited non-zero
\* the push subprocess is not invoked.
C4_NoPushAfterFailedCommit ==
    (ChosePush /\ HasResult(log, "run", "commit", 1)) => ~Has(log, "run", "push")

\* C5: in both clone actions, when the clone subprocess has exited non-zero
\* the working directory is unchanged and the process does not terminate
\* (control returns to the menu), whatever was in the filesystem before.
C5_FailedCloneLeavesProcessInPlace ==
    [][ HasResult(log', "run", "clone", 1) =>
          (cwd' = cwd /\ ~Has(log', "file", "chdir") /\ pc' = "returned")
      ]_vars

\* C6: the process ends only through the exit choice or the exit after a
\* clone; no exception reaches the top of the program.
C6_NoUncaughtException == pc # "crash"

ValidCreateName(n) ==
    /\ Len(n) >= 1
    /\ \A i \in DOMAIN n : n[i] \in NameChars
    /\ n[1] # "-"
    /\ Len(n) <= 100

FirstFailedRule(n) ==
    IF ~(Len(n) >= 1 /\ \A i \in DOMAIN n : n[i] \in NameChars) THEN "invalid_characters"
    ELSE IF n[1] = "-" THEN "leading_hyphen"
    ELSE "too_long"

\* C7: the create action proceeds past name validation (to the login step)
\* exactly for the names made of one or more characters of [A-Za-z0-9_.-],
\* not starting with "-", of length at most 100; for every other name it
\* prints the message of the first failed rule and returns, having made no
\* request, shown no login prompt, run no subprocess and changed no file.
C7_CreateValidation ==
    [][ (choice' = <<"1">> /\ ~inside_git_repo) =>
          IF ValidCreateName(repo_name')
            THEN /\ ReachedLogin(log')
                 /\ ~Has(log', "print", "invalid_characters")
                 /\ ~Has(log', "print", "leading_hyphen")
                 /\ ~Has(log', "print", "too_long")
            ELSE /\ log' = << Event("input", "choice", "", 0),
                              Event("input", "repo_name", "", 0),
                              Event("input", "private", "", 0),
                              Event("print", FirstFailedRule(repo_name'), "", 0) >>
                 /\ fs' = fs /\ cwd' = cwd /\ cred' = cred
                 /\ pc' = "returned"
      ]_vars

C7_Witness ==
    /\ ChoseCreate
    /\ StartsWith(repo_name, <<"-">>)
    /\ Len(repo_name) > 100
    /\ Has(log, "print", "leading_hyphen")
    /\ pc = "returned"

\* C8: in the push action, when the marker directory exists and both diff
\* checks exit with 0, none of add, commit and push is invoked; when the
\* marker directory is absent no subprocess is invoked and the action
\* returns to the menu.
C8_PushNothingToDo ==
    ChosePush =>
        /\ (HasResult(log, "run", "diff", 0) /\ HasResult(log, "run", "diff_cached", 0)) =>
             /\ ~Has(log, "run", "add")
             /\ ~Has(log, "run", "commit")
             /\ ~Has(log, "run", "push")
             /\ pc = "returned"
        /\ ~Exists(fs, DotGit) => (~HasKind(log, "run") /\ pc = "returned")

C8_Witness ==
    /\ ChosePush
    /\ Exists(fs, DotGit)
    /\ HasResult(log, "run", "diff", 0)
    /\ HasResult(log, "run", "diff_cached", 0)
    /\ Has(log, "print", "no_changes")

\* C9: a credential that is present in the credential file has a non-empty
\* account identifier and a non-empty access token.
C9_CredentialFieldsNonEmpty ==
    cred.kind = "dict" => (cred.username # <<>> /\ cred.token # <<>>)

\* C10: when the marker directory was detected at startup, choices "1" and
\* "5" are answered with the invalid-option error and dispatch nothing;
\* every choice other than "6" that does not end in the exit after a clone
\* returns to the prompt, and "6" ends the loop.
C10_MenuLoop ==
    (inside_git_repo /\ pc # "prompt") =>
        /\ choice \in {<<"1">>, <<"5">>} =>
             log = << Event("input", "choice", "", 0),
                      Event("print", "invalid_or_hidden_option", "", 0) >>
        /\ (choice # <<"6">> /\ pc # "exit") => pc = "returned"
        /\ choice = <<"6">> => pc = "break"

\* The dispatch part of C10 on its own: hidden choices dispatch nothing and
\* "6" ends the loop.
MenuDispatchWhenInsideRepo ==
    (inside_git_repo /\ pc # "prompt") =>
        /\ choice \in {<<"1">>, <<"5">>} =>
             /\ log = << Event("input", "choice", "", 0),
                         Event("print", "invalid_or_hidden_option", "", 0) >>
             /\ pc = "returned"
        /\ choice = <<"6">> <=> pc = "break"

=============================================================================
